---- MODULE Spec2Model ----
(***************************************************************************)
(* webtop: a pool of workers probes one URL, the last outcomes are kept in *)
(* a bounded window, statistics are derived from the window, and a stop    *)
(* signal (SIGINT/SIGTERM or a duration timer) ends the run.               *)
(*                                                                         *)
(* Two programs are modelled, chosen by `program`:                         *)
(*   "webtop"  src/webtop/__init__.py  main() with its own worker loop     *)
(*   "cli"     src/webtop.py           main() driving api.Runner           *)
(*                                                                         *)
(* Time is a discrete clock `now`; one tick is the renderer's sleep of     *)
(* 0.1 s.  asyncio runs one coroutine at a time, so a coroutine step is    *)
(* one action; only the signal handler can run in the middle of a step.    *)
(***************************************************************************)
EXTENDS Integers, Sequences, FiniteSets, TLC

\* ---- bounds of the model ------------------------------------------------
MaxJobs == 2
MaxHistory == 2
MaxDuration == 1
MaxTimeout == 1
MaxRead == 1
MaxAppends == 3
MaxSignals == 1
MaxLen == 3

\* ---- program constants --------------------------------------------------
RenderPeriod == 1
TickUs == RenderPeriod * 100000
MsUs == 1000
SuccessLow == 200
SuccessHigh == 400

\* the clock stops here: long enough for a request that starts when the
\* longest duration ends and takes as long as a request may
MaxTime == MaxDuration + MaxTimeout + MaxRead

None == <<>>
Some(x) == <<x>>

\* what the server answers during a run, and what a request raises
Statuses == {200, 500}
Errors == {"ServerTimeoutError", "ClientConnectorError"}

\* the inputs of the statistics: statuses around both ends of the success
\* range, elapsed times in microseconds around whole milliseconds
StatStatuses == {SuccessLow - 1, SuccessLow, SuccessHigh - 1, SuccessHigh}
StatElapsed == {0, 500, 1000, 1500}

VARIABLES
    program,         \* which main() runs
    args,            \* the command line
    custom_resolution, \* main's dict of name resolution overrides
    lookup,          \* the last call of the resolver and its answer
    results,         \* deque(maxlen=args.request_history)
    shutdown_event,  \* asyncio.Event
    runner_stop,     \* the Runner's cancellation signal ("cli" only)
    pc,              \* worker -> position in the worker loop
    req_start,       \* worker -> start_time of its request
    stop_test,       \* position of the duration timer task
    rend,            \* position of the renderer / polling loop
    rend_wake,       \* time at which the renderer's sleep ends
    output,          \* the renderer's local `output` (None while unbound)
    gather,          \* state of asyncio.gather(*tasks) in main
    session,         \* the shared aiohttp.ClientSession
    started,         \* number of tasks that have taken their first step
    now,             \* the clock
    appended,        \* history: every outcome ever appended, in order
    signals,         \* history: number of signals delivered
    stop_calls,      \* history: number of times the stop signal was requested
    sets             \* history: number of unset -> set changes of the signal

vars == <<program, args, custom_resolution, lookup, results, shutdown_event, runner_stop, pc, req_start, stop_test,
          rend, rend_wake, output, gather, session, started, now,
          appended, signals, stop_calls, sets>>

\* one worker more than asked for
Workers_plus == 1..(args.jobs + 1)

Workers == 1..args.jobs
HasDuration == args.duration # None
Duration == args.duration[1]

\* ---- Result / ResponseResult / ErrorResult ------------------------------
\* Result with the upper end of the success range included
Result_inclusive(response, error) ==
    [response |-> response,
     error |-> error,
     is_success |-> IF response = None \/ error # None
                    THEN FALSE
                    ELSE SuccessLow <= response[1] /\ response[1] <= SuccessHigh]

Result(response, error) ==
    [response |-> response,
     error |-> error,
     is_success |-> IF response = None \/ error # None
                    THEN FALSE
                    ELSE SuccessLow <= response[1] /\ response[1] < SuccessHigh]

\* start_time and end_time in microseconds, the resolution of a timedelta
ResponseResult(status, start_time, end_time) ==
    [type |-> "ResponseResult", elapsed |-> end_time - start_time]
        @@ Result(Some(status), None)

ErrorResult(error) ==
    [type |-> "ErrorResult"] @@ Result(None, Some(error))

\* ---- deque(maxlen=C).append ---------------------------------------------
\* a window that makes room by dropping its newest entry
DequeAppend_newest(d, maxlen, x) ==
    IF Len(d) = maxlen THEN Append(SubSeq(d, 1, Len(d) - 1), x) ELSE Append(d, x)

\* appendleft: the new entry goes in front and the entry at the back is dropped
DequeAppend_left(d, maxlen, x) ==
    IF Len(d) = maxlen THEN <<x>> \o SubSeq(d, 1, Len(d) - 1) ELSE <<x>> \o d

DequeAppend(d, maxlen, x) ==
    IF Len(d) = maxlen THEN Append(Tail(d), x) ELSE Append(d, x)

\* ---- build_stats --------------------------------------------------------
\* math.ceil(a / b) for b > 0
Ceil(a, b) == -((-a) \div b)

\* reason_counts[reason] = reason_counts.get(reason, 0) + 1 on a dict, which
\* keeps its keys in insertion order: a sequence of <<key, count>> pairs
DictKeys(d) == {d[i][1] : i \in 1..Len(d)}

\* a dict that puts a new key in front of the keys it has
DictIncrement_front(d, key) ==
    IF key \in DictKeys(d)
    THEN [i \in 1..Len(d) |-> IF d[i][1] = key THEN <<key, d[i][2] + 1>> ELSE d[i]]
    ELSE <<<<key, 1>>>> \o d

DictIncrement(d, key) ==
    IF key \in DictKeys(d)
    THEN [i \in 1..Len(d) |-> IF d[i][1] = key THEN <<key, d[i][2] + 1>> ELSE d[i]]
    ELSE Append(d, <<key, 1>>)

Reason(result) ==
    IF result.type = "ResponseResult"
    THEN "HTTP " \o ToString(result.response[1])
    ELSE result.error[1]

\* the elapsed time cut to whole milliseconds instead of rounded up
Latency_floor(result) == result.elapsed \div MsUs

\* math.ceil(result.elapsed / datetime.timedelta(milliseconds=1))
Latency(result) == Ceil(result.elapsed, MsUs)

\* an iteration that counts every entry among the responses
build_stats_step_all(acc, result) ==
    [no_successful_results |->
         acc.no_successful_results + (IF result.is_success THEN 1 ELSE 0),
     no_responses |-> acc.no_responses + 1,
     sum_latency |->
         acc.sum_latency
             + (IF result.type = "ResponseResult" THEN Latency(result) ELSE 0),
     reason_counts |-> DictIncrement(acc.reason_counts, Reason(result))]

\* one iteration of the for loop of build_stats
build_stats_step(acc, result) ==
    [no_successful_results |->
         acc.no_successful_results + (IF result.is_success THEN 1 ELSE 0),
     no_responses |->
         acc.no_responses + (IF result.type = "ResponseResult" THEN 1 ELSE 0),
     sum_latency |->
         acc.sum_latency
             + (IF result.type = "ResponseResult" THEN Latency(result) ELSE 0),
     reason_counts |-> DictIncrement(acc.reason_counts, Reason(result))]

RECURSIVE build_stats_loop(_, _, _)
build_stats_loop(rs, i, acc) ==
    IF i > Len(rs) THEN acc
    ELSE build_stats_loop(rs, i + 1, build_stats_step(acc, rs[i]))

\* the rate as a fraction of one instead of a percentage
success_rate_fraction(no_successful_results, no_results) ==
    IF no_results > 0 THEN <<no_successful_results, no_results>>
    ELSE <<0, 1>>

\* a float is modelled as the exact fraction <<numerator, denominator>>
success_rate(no_successful_results, no_results) ==
    IF no_results > 0 THEN <<no_successful_results * 100, no_results>>
    ELSE <<0, 1>>

avg_latency(sum_latency, no_responses) ==
    IF no_responses > 0 THEN Ceil(sum_latency, no_responses) ELSE 0

build_stats(rs) ==
    LET acc == build_stats_loop(rs, 1,
                   [no_successful_results |-> 0, no_responses |-> 0,
                    sum_latency |-> 0, reason_counts |-> <<>>])
    IN  [sample_size |-> Len(rs),
         success_rate |-> success_rate(acc.no_successful_results, Len(rs)),
         average_latency |-> avg_latency(acc.sum_latency, acc.no_responses),
         reason_counts |-> acc.reason_counts]

\* ---- the run ------------------------------------------------------------
Min(a, b) == IF a < b THEN a ELSE b
Max(a, b) == IF a > b THEN a ELSE b

\* the signal the workers poll
StopSignal == IF program = "cli" THEN runner_stop ELSE shutdown_event

\* the order in which the event loop first runs the tasks: the order of their
\* creation.  webtop: stop_test, renderer, workers (tasks, lines 217-245).
\* cli: main's polling loop, runner.start(), stop_test, then the workers.
D1 == IF HasDuration THEN 1 ELSE 0
RendIdx == IF program = "cli" THEN 1 ELSE D1 + 1
StartIdx == 2
TimerIdx == IF program = "cli" THEN 3 ELSE 1
WorkerIdx(w) == (IF program = "cli" THEN 2 + D1 ELSE 1 + D1) + w
NTasks == WorkerIdx(args.jobs)

FirstStep(idx) == started = idx - 1

\* no coroutine is in the middle of a step (only a signal handler can run then)
Coop == \A w \in Workers : pc[w] # "call"

InFlight == Cardinality({w \in Workers : pc[w] \in {"call", "connect", "read"}})
MayProbe == Len(appended) + InFlight < MaxAppends

\* the run counts as stopped when one worker has exited
AllStopped_any == \E w \in Workers : pc[w] = "done"

AllStopped == \A w \in Workers : pc[w] = "done"

\* ---- the command line ----------------------------------------------------
\* A URL is its host (None for a relative URL).  The text of --resolve is the
\* sequence of its pieces, a piece being ":" or a name without ":".  The text
\* of --duration is <<d>> when it reads as d ticks, and Malformed when
\* neither float() nor durationpy.from_str can read it.
Malformed == <<0, 0>>
Hosts == {"example.com", "other.org"}
TargetHost == "example.com"

ResolveTexts ==
    {<<h, ":", "127.0.0.1">> : h \in Hosts}
        \cup {<<TargetHost>>, <<TargetHost, ":">>, <<":">>,
              <<TargetHost, ":", "127.0.0.1", ":", "80">>}

\* the command lines of the runs that are followed to their end
Configs ==
    [jobs : 1..MaxJobs,
     request_history : 1..MaxHistory,
     timeout : 1..MaxTimeout,
     duration : {None} \cup {Some(d) : d \in 0..MaxDuration},
     quiet : BOOLEAN,
     url : {[host |-> Some(TargetHost)]},
     resolve : {None}]

BaseConfig ==
    [jobs |-> 1, request_history |-> 1, timeout |-> 1, duration |-> None,
     quiet |-> FALSE, url |-> [host |-> Some(TargetHost)], resolve |-> None]

\* command lines that are wrong in one place
BadConfigs ==
    {[BaseConfig EXCEPT !.url = [host |-> None]]}
        \cup {[BaseConfig EXCEPT !.jobs = n] : n \in {-1, 0}}
        \cup {[BaseConfig EXCEPT !.request_history = 0]}
        \cup {[BaseConfig EXCEPT !.timeout = n] : n \in {-1, 0}}
        \cup {[BaseConfig EXCEPT !.duration = Malformed]}
        \cup {[BaseConfig EXCEPT !.resolve = Some(<<TargetHost>>)],
              [BaseConfig EXCEPT !.resolve = Some(<<":">>)],
              [BaseConfig EXCEPT !.resolve =
                   Some(<<TargetHost, ":", "127.0.0.1", ":", "80">>)]}

\* str.split(":"): the pieces between the colons, "" where there is none
RECURSIVE SplitFrom(_, _, _)
SplitFrom(text, i, part) ==
    IF i > Len(text) THEN <<part>>
    ELSE IF text[i] = ":" THEN <<part>> \o SplitFrom(text, i + 1, "")
    ELSE SplitFrom(text, i + 1, part \o text[i])

Split(text) == SplitFrom(text, 1, "")

\* ":" in args.resolve
HasColon(text) == \E i \in 1..Len(text) : text[i] = ":"

\* argparse: type=float for --duration in webtop (the cli takes any string)
parse_args_ok ==
    program = "webtop" => (args.duration = None \/ Len(args.duration) = 1)

\* durationpy.from_str(duration) does not raise
duration_is_valid(duration) == duration = None \/ Len(duration) = 1

are_args_valid ==
    /\ args.url.host # None
    /\ args.request_history >= 1
    /\ args.timeout > 0
    /\ args.jobs > 0
    /\ args.resolve = None \/ HasColon(args.resolve[1])
    /\ program = "cli" => duration_is_valid(args.duration)

\* host, address = args.resolve.split(":") does not raise ValueError
split_ok == args.resolve = None \/ Len(Split(args.resolve[1])) = 2

\* an override that is entered whatever the host of the URL
build_custom_resolution_any ==
    IF args.resolve = None THEN <<>>
    ELSE LET host == Split(args.resolve[1])[1]
             address == Split(args.resolve[1])[2]
         IN  <<<<host, address>>>>

\* custom_resolution after lines 191-196: at most the one pair of --resolve,
\* and only when its host is the host of the URL
build_custom_resolution ==
    IF args.resolve = None THEN <<>>
    ELSE LET host == Split(args.resolve[1])[1]
             address == Split(args.resolve[1])[2]
         IN  IF args.url.host = Some(host) THEN <<<<host, address>>>> ELSE <<>>

\* the resolver factory handed to the TCPConnector
resolver ==
    IF custom_resolution # <<>> THEN "CustomResolver" ELSE "DefaultResolver"

Ports == {80, 443}

\* custom_mappings[host]
DictGet(d, key) == d[CHOOSE i \in 1..Len(d) : d[i][1] = key][2]

\* CustomResolver.resolve: the literal answer, or the call handed on to the
\* AsyncResolver with the same arguments
CustomResolver_resolve(custom_mappings, host, port, family) ==
    IF host \in DictKeys(custom_mappings)
    THEN [delegated |-> None,
          answer |-> <<[hostname |-> host,
                        host |-> DictGet(custom_mappings, host),
                        port |-> port,
                        family |-> family,
                        proto |-> 0,
                        flags |-> "AI_NUMERICHOST"]>>]
    ELSE [delegated |-> Some(<<host, port, family>>), answer |-> None]

\* aiohttp's DefaultResolver: the normal resolution
DefaultResolver_resolve(host, port, family) ==
    [delegated |-> Some(<<host, port, family>>), answer |-> None]

Init ==
    /\ program \in {"webtop", "cli"}
    /\ args \in Configs \cup BadConfigs
    /\ program = "cli" => ~args.quiet
    /\ custom_resolution = <<>>
    /\ lookup = None
    /\ results = <<>>
    /\ shutdown_event = FALSE
    /\ runner_stop = FALSE
    /\ pc = [w \in Workers |-> "loop"]
    /\ req_start = [w \in Workers |-> 0]
    /\ stop_test = IF HasDuration THEN "start" ELSE "none"
    /\ rend = "start"
    /\ rend_wake = 0
    /\ output = None
    /\ gather = "args"
    /\ session = "none"
    /\ started = 0
    /\ now = 0
    /\ appended = <<>>
    /\ signals = 0
    /\ stop_calls = 0
    /\ sets = 0

\* an event that a second set() clears again
Event_toggle == shutdown_event' = ~shutdown_event

\* shutdown_event.set()
Event_set == shutdown_event' = TRUE

\* runner.stop(): sets the Runner's cancellation signal, which stays set
Runner_stop == runner_stop' = TRUE

\* what both stop triggers do, with the history of the calls:
\* webtop: shutdown_event.set(); cli: runner.stop(); shutdown_event.set()
SetStop ==
    /\ Event_set
    /\ IF program = "cli" THEN Runner_stop ELSE UNCHANGED runner_stop
    /\ stop_calls' = stop_calls + 1
    /\ sets' = IF StopSignal THEN sets ELSE sets + 1

\* main up to asyncio.gather: parse_args, the assert, the resolver override,
\* the handlers, the tasks, the session (which the cli leaves to the Runner)
main_start ==
    /\ gather = "args"
    /\ IF parse_args_ok /\ are_args_valid /\ split_ok
       THEN /\ gather' = "pending"
            /\ custom_resolution' = build_custom_resolution
            /\ session' = IF program = "webtop" THEN "open" ELSE session
       ELSE /\ gather' = "refused"
            /\ UNCHANGED <<custom_resolution, session>>
    /\ UNCHANGED <<program, args, lookup, results, shutdown_event, runner_stop,
                   pc, req_start, stop_test, rend, rend_wake, output, started,
                   now, appended, signals, stop_calls, sets>>

\* SIGINT / SIGTERM: runs between any two bytecodes of the main thread, once
\* main has installed the handler
shutdown_signal_handler ==
    /\ gather \notin {"args", "refused"}
    /\ signals < MaxSignals
    /\ signals' = signals + 1
    /\ SetStop
    /\ UNCHANGED <<program, args, custom_resolution, lookup, results, pc, req_start, stop_test, rend,
                   rend_wake, output, gather, session, started, now, appended>>

\* first step of stop_test: asyncio.sleep(duration), or
\* asyncio.wait([shutdown_event.wait()], timeout=duration) in the cli
stop_test_start ==
    /\ gather = "pending"
    /\ Coop
    /\ stop_test = "start"
    /\ FirstStep(TimerIdx)
    /\ started' = started + 1
    /\ stop_test' = "sleeping"
    /\ UNCHANGED <<program, args, custom_resolution, lookup, results, shutdown_event, runner_stop, pc,
                   req_start, rend, rend_wake, output, gather, session, now,
                   appended, signals, stop_calls, sets>>

TimerDue ==
    \/ now >= Duration
    \/ program = "cli" /\ shutdown_event

stop_test_fire ==
    /\ gather = "pending"
    /\ Coop
    /\ stop_test = "sleeping"
    /\ TimerDue
    /\ stop_test' = "done"
    /\ SetStop
    /\ UNCHANGED <<program, args, custom_resolution, lookup, results, pc, req_start, rend, rend_wake,
                   output, gather, session, started, now, appended, signals>>

\* Runner.start() up to its first suspension: builds the shared client
runner_start ==
    /\ program = "cli"
    /\ gather = "pending"
    /\ FirstStep(StartIdx)
    /\ started' = started + 1
    /\ session' = "open"
    /\ UNCHANGED <<program, args, custom_resolution, lookup, results, shutdown_event, runner_stop, pc,
                   req_start, stop_test, rend, rend_wake, output, gather, now,
                   appended, signals, stop_calls, sets>>

\* a worker that never looks at the signal
worker_exits_never == FALSE

\* the loop test of worker(): not shutdown_event.is_set() is false
worker_exits == StopSignal

\* while not shutdown_event.is_set()
worker_loop(w) ==
    /\ gather = "pending"
    /\ Coop
    /\ pc[w] = "loop"
    /\ started >= WorkerIdx(w) - 1
    /\ started' = Max(started, WorkerIdx(w))
    /\ IF worker_exits
       THEN pc' = [pc EXCEPT ![w] = "done"]
       ELSE /\ MayProbe
            /\ pc' = [pc EXCEPT ![w] = "call"]
    /\ UNCHANGED <<program, args, custom_resolution, lookup, results, shutdown_event, runner_stop,
                   req_start, stop_test, rend, rend_wake, output, gather,
                   session, now, appended, signals, stop_calls, sets>>

\* request(): start_time = time.time(); session.request(method, url)
request_start(w) ==
    /\ pc[w] = "call"
    /\ pc' = [pc EXCEPT ![w] = "connect"]
    /\ req_start' = [req_start EXCEPT ![w] = now]
    /\ UNCHANGED <<program, args, custom_resolution, lookup, results, shutdown_event, runner_stop,
                   stop_test, rend, rend_wake, output, gather, session,
                   started, now, appended, signals, stop_calls, sets>>

\* the connection is acquired within ClientTimeout(connect=args.timeout)
request_connected(w) ==
    /\ Coop
    /\ pc[w] = "connect"
    /\ now - req_start[w] <= args.timeout
    /\ pc' = [pc EXCEPT ![w] = "read"]
    /\ UNCHANGED <<program, args, custom_resolution, lookup, results, shutdown_event, runner_stop,
                   req_start, stop_test, rend, rend_wake, output, gather,
                   session, started, now, appended, signals, stop_calls, sets>>

\* a worker that a failed probe ends
worker_append_raise(w, result) ==
    /\ results' = DequeAppend(results, args.request_history, result)
    /\ appended' = Append(appended, result)
    /\ pc' = [pc EXCEPT ![w] = IF result.is_success THEN "loop" ELSE "done"]

\* a worker that drops the outcome of the probe that was in flight at the stop
worker_append_drop(w, result) ==
    /\ results' = IF StopSignal THEN results
                  ELSE DequeAppend(results, args.request_history, result)
    /\ appended' = IF StopSignal THEN appended ELSE Append(appended, result)
    /\ pc' = [pc EXCEPT ![w] = "loop"]

\* results.append(result), then back to the loop test
worker_append(w, result) ==
    /\ results' = DequeAppend(results, args.request_history, result)
    /\ appended' = Append(appended, result)
    /\ pc' = [pc EXCEPT ![w] = "loop"]

\* except Exception as e: return ErrorResult(error=e)
\* the connection fails: refused before the connect timeout, timed out at it
request_error(w) ==
    /\ Coop
    /\ pc[w] = "connect"
    /\ \E e \in Errors :
          /\ e = "ServerTimeoutError" <=> now - req_start[w] = args.timeout
          /\ worker_append(w, ErrorResult(e))
    /\ UNCHANGED <<program, args, custom_resolution, lookup, shutdown_event, runner_stop, req_start,
                   stop_test, rend, rend_wake, output, gather, session,
                   started, now, signals, stop_calls, sets>>

\* await response.read(); end_time = time.time(); return ResponseResult(...)
request_response(w) ==
    /\ Coop
    /\ pc[w] = "read"
    /\ \E status \in Statuses :
          worker_append(w, ResponseResult(status, req_start[w] * TickUs,
                                          now * TickUs))
    /\ UNCHANGED <<program, args, custom_resolution, lookup, shutdown_event, runner_stop, req_start,
                   stop_test, rend, rend_wake, output, gather, session,
                   started, now, signals, stop_calls, sets>>

\* a renderer whose statistics miss the oldest entry of the window
renderer_torn ==
    /\ gather = "pending"
    /\ Coop
    /\ ~args.quiet
    /\ \/ rend = "start" /\ FirstStep(RendIdx) /\ started' = started + 1
       \/ rend = "sleep" /\ now >= rend_wake /\ started' = started
    /\ IF shutdown_event
       THEN /\ rend' = IF program = "webtop" /\ output = None
                       THEN "failed" ELSE "done"
            /\ UNCHANGED <<output, rend_wake>>
       ELSE /\ output' = Some(build_stats(IF results = <<>> THEN results
                                          ELSE Tail(results)))
            /\ rend' = "sleep"
            /\ rend_wake' = Min(now + RenderPeriod, MaxTime)
    /\ UNCHANGED <<program, args, custom_resolution, lookup, results,
                   shutdown_event, runner_stop, pc, req_start, stop_test,
                   gather, session, now, appended, signals, stop_calls, sets>>

\* the loop of renderer() without --quiet, and the polling loop of the cli:
\* while not shutdown_event.is_set(): build, print, sleep(0.1)
\* after the loop webtop prints `output`, which is unbound if the loop never ran
renderer ==
    /\ gather = "pending"
    /\ Coop
    /\ ~args.quiet
    /\ \/ rend = "start" /\ FirstStep(RendIdx) /\ started' = started + 1
       \/ rend = "sleep" /\ now >= rend_wake /\ started' = started
    /\ IF shutdown_event
       THEN /\ rend' = IF program = "webtop" /\ output = None
                       THEN "failed" ELSE "done"
            /\ UNCHANGED <<output, rend_wake>>
       ELSE /\ output' = Some(build_stats(results))
            /\ rend' = "sleep"
            /\ rend_wake' = Min(now + RenderPeriod, MaxTime)
    /\ UNCHANGED <<program, args, custom_resolution, lookup, results, shutdown_event, runner_stop, pc,
                   req_start, stop_test, gather, session, now, appended,
                   signals, stop_calls, sets>>

\* renderer() with --quiet: await shutdown_event.wait()
renderer_wait ==
    /\ gather = "pending"
    /\ Coop
    /\ args.quiet
    /\ rend = "start"
    /\ FirstStep(RendIdx)
    /\ started' = started + 1
    /\ rend' = "wait"
    /\ UNCHANGED <<program, args, custom_resolution, lookup, results, shutdown_event, runner_stop, pc,
                   req_start, stop_test, rend_wake, output, gather, session,
                   now, appended, signals, stop_calls, sets>>

\* a final rendering that empties the window it has read
renderer_final_clear ==
    /\ gather = "pending"
    /\ Coop
    /\ rend = "wait"
    /\ shutdown_event
    /\ output' = Some(build_stats(results))
    /\ rend' = "done"
    /\ results' = <<>>
    /\ UNCHANGED <<program, args, custom_resolution, lookup, shutdown_event,
                   runner_stop, pc, req_start, stop_test, rend_wake, gather,
                   session, started, now, appended, signals, stop_calls, sets>>

\* renderer() with --quiet, after the wait: build, print
renderer_final ==
    /\ gather = "pending"
    /\ Coop
    /\ rend = "wait"
    /\ shutdown_event
    /\ output' = Some(build_stats(results))
    /\ rend' = "done"
    /\ UNCHANGED <<program, args, custom_resolution, lookup, results, shutdown_event, runner_stop, pc,
                   req_start, stop_test, rend_wake, gather, session, started,
                   now, appended, signals, stop_calls, sets>>

\* Runner.start() returns once every worker has exited
runner_return ==
    /\ program = "cli"
    /\ gather = "pending"
    /\ Coop
    /\ started = NTasks
    /\ session = "open"
    /\ AllStopped
    /\ session' = "closed"
    /\ UNCHANGED <<program, args, custom_resolution, lookup, results, shutdown_event, runner_stop, pc,
                   req_start, stop_test, rend, rend_wake, output, gather,
                   started, now, appended, signals, stop_calls, sets>>

\* a gather that does not wait for the workers
TasksDone_early ==
    /\ started = NTasks
    /\ stop_test \in {"none", "done"}
    /\ rend = "done"
    /\ program = "cli" => session = "closed"

TasksDone ==
    /\ started = NTasks
    /\ stop_test \in {"none", "done"}
    /\ rend = "done"
    /\ IF program = "cli" THEN session = "closed" ELSE AllStopped

\* await asyncio.gather(*tasks) returns; the session is closed on the way out
gather_return ==
    /\ gather = "pending"
    /\ TasksDone
    /\ gather' = "returned"
    /\ session' = "closed"
    /\ UNCHANGED <<program, args, custom_resolution, lookup, results, shutdown_event, runner_stop, pc,
                   req_start, stop_test, rend, rend_wake, output, started, now,
                   appended, signals, stop_calls, sets>>

\* gather re-raises the renderer's UnboundLocalError once the loop has run the
\* steps queued before it; asyncio.run then cancels what is left
gather_raise ==
    /\ gather = "pending"
    /\ Coop
    /\ rend = "failed"
    /\ started = NTasks
    /\ gather' = "raised"
    /\ session' = "closed"
    /\ stop_test' = IF stop_test = "sleeping" THEN "cancelled" ELSE stop_test
    /\ UNCHANGED <<program, args, custom_resolution, lookup, results, shutdown_event, runner_stop, pc,
                   req_start, rend, rend_wake, output, started, now, appended,
                   signals, stop_calls, sets>>

\* a step that takes no time is enabled
Urgent ==
    \/ started < NTasks
    \/ \E w \in Workers : pc[w] = "call"
    \/ \E w \in Workers : pc[w] = "loop" /\ (StopSignal \/ MayProbe)
    \/ \E w \in Workers : pc[w] = "connect" /\ now - req_start[w] >= args.timeout
    \/ \E w \in Workers :
          pc[w] = "read" /\ now - req_start[w] >= args.timeout + MaxRead
    \/ stop_test = "sleeping" /\ TimerDue
    \/ rend = "sleep" /\ now >= rend_wake
    \/ rend = "wait" /\ shutdown_event
    \/ rend = "failed"
    \/ program = "cli" /\ session = "open" /\ AllStopped
    \/ TasksDone

Tick ==
    /\ gather = "pending"
    /\ now < MaxTime
    /\ ~Urgent
    /\ now' = now + 1
    /\ UNCHANGED <<program, args, custom_resolution, lookup, results, shutdown_event, runner_stop, pc,
                   req_start, stop_test, rend, rend_wake, output, gather,
                   session, started, appended, signals, stop_calls, sets>>

Next ==
    \/ main_start
    \/ shutdown_signal_handler
    \/ stop_test_start
    \/ stop_test_fire
    \/ runner_start
    \/ \E w \in Workers : worker_loop(w)
    \/ \E w \in Workers : request_start(w)
    \/ \E w \in Workers : request_connected(w)
    \/ \E w \in Workers : request_error(w)
    \/ \E w \in Workers : request_response(w)
    \/ renderer
    \/ renderer_wait
    \/ renderer_final
    \/ runner_return
    \/ gather_return
    \/ gather_raise
    \/ Tick

Spec == Init /\ [][Next]_vars

\* what the event loop and the network guarantee: a ready task runs, a
\* request ends, time passes.  Signals need not ever arrive.
Progress ==
    \/ main_start
    \/ stop_test_start
    \/ stop_test_fire
    \/ runner_start
    \/ \E w \in Workers : worker_loop(w)
    \/ \E w \in Workers : request_start(w)
    \/ \E w \in Workers : request_connected(w)
    \/ \E w \in Workers : request_error(w)
    \/ \E w \in Workers : request_response(w)
    \/ renderer
    \/ renderer_wait
    \/ renderer_final
    \/ runner_return
    \/ gather_return
    \/ gather_raise
    \/ Tick

FairSpec == Init /\ [][Next]_vars /\ WF_vars(Progress)

\* ---- the statistics as a function of the window -------------------------
\* A quiet webtop run at the moment the stop signal wakes the renderer: the
\* window holds any outcomes, and renderer_final computes their statistics.
\* The clock is not part of this specification: elapsed times are inputs.
StatResults ==
    {ResponseResult(s, 0, e) : s \in StatStatuses, e \in StatElapsed}
        \cup {ErrorResult(e) : e \in Errors}

SeqsUpTo(S, n) == UNION {[1..k -> S] : k \in 0..n}

StatsInit ==
    /\ program = "webtop"
    /\ args = [BaseConfig EXCEPT !.request_history = MaxLen, !.quiet = TRUE]
    /\ custom_resolution = <<>>
    /\ lookup = None
    /\ results \in SeqsUpTo(StatResults, MaxLen)
    /\ appended = results
    /\ shutdown_event = TRUE
    /\ runner_stop = FALSE
    /\ pc = [w \in Workers |-> "done"]
    /\ req_start = [w \in Workers |-> 0]
    /\ stop_test = "none"
    /\ rend = "wait"
    /\ rend_wake = 0
    /\ output = None
    /\ gather = "pending"
    /\ session = "open"
    /\ started = 2
    /\ now = 0
    /\ signals = 1
    /\ stop_calls = 1
    /\ sets = 1

StatsNext == renderer_final

StatsSpec == StatsInit /\ [][StatsNext]_vars

\* ---- name resolution of a run --------------------------------------------
\* webtop started with any URL host and any --resolve text; once main has
\* set up the resolver, the connector asks it for hosts (the host of the URL,
\* or the host a redirect leads to).
ResolveConfigs ==
    {[BaseConfig EXCEPT !.url = [host |-> u], !.resolve = r, !.jobs = j] :
         u \in {None} \cup {Some(h) : h \in Hosts},
         r \in {None} \cup {Some(t) : t \in ResolveTexts},
         j \in 1..MaxJobs}

ResolveInit ==
    /\ program = "webtop"
    /\ args \in ResolveConfigs
    /\ custom_resolution = <<>>
    /\ lookup = None
    /\ results = <<>>
    /\ shutdown_event = FALSE
    /\ runner_stop = FALSE
    /\ pc = [w \in Workers |-> "loop"]
    /\ req_start = [w \in Workers |-> 0]
    /\ stop_test = "none"
    /\ rend = "start"
    /\ rend_wake = 0
    /\ output = None
    /\ gather = "args"
    /\ session = "none"
    /\ started = 0
    /\ now = 0
    /\ appended = <<>>
    /\ signals = 0
    /\ stop_calls = 0
    /\ sets = 0

\* the connector of the open session resolves a host
resolve(host, port) ==
    /\ gather = "pending"
    /\ session = "open"
    /\ lookup' =
           Some([host |-> host, port |-> port] @@
                (IF resolver = "CustomResolver"
                 THEN CustomResolver_resolve(custom_resolution, host, port, "AF_INET")
                 ELSE DefaultResolver_resolve(host, port, "AF_INET")))
    /\ UNCHANGED <<program, args, custom_resolution, results, shutdown_event,
                   runner_stop, pc, req_start, stop_test, rend, rend_wake,
                   output, gather, session, started, now, appended, signals,
                   stop_calls, sets>>

ResolveNext ==
    \/ main_start
    \/ \E host \in Hosts, port \in Ports : resolve(host, port)

ResolveSpec == ResolveInit /\ [][ResolveNext]_vars

\* ==== the claims =========================================================
LastN(s, n) == SubSeq(s, Len(s) - n + 1, Len(s))
Last(s) == s[Len(s)]

\* C1: after N appends the window of capacity C holds exactly the last
\* min(N, C) appended outcomes in the order of their arrival, and is never
\* longer than C (so an append at capacity drops exactly the oldest entry).
C1_Window ==
    /\ Len(results) <= args.request_history
    /\ results = LastN(appended, Min(Len(appended), args.request_history))

\* two workers have appended three outcomes to a window of two
C1_Witness ==
    /\ args.jobs = 2
    /\ args.request_history = 2
    /\ Len(appended) = 3
    /\ appended[1] # appended[2]
    /\ appended[2] # appended[3]

\* C2: however often and from whichever trigger stop is requested, the stop
\* signal goes from unset to set exactly once and is never cleared.
C2_StopOnce ==
    /\ sets <= 1
    /\ stop_calls = 0 => ~StopSignal /\ ~shutdown_event /\ sets = 0
    /\ stop_calls > 0 => StopSignal /\ shutdown_event /\ sets = 1

\* the timer and a signal have both requested the stop and the run is over
C2_Witness ==
    /\ stop_calls >= 2
    /\ signals >= 1
    /\ stop_test = "done"
    /\ gather = "returned"

\* C3: a worker that is Stopped stays Stopped; a worker at its loop test
\* with the stop signal set starts no request, so after the signal is set it
\* finishes at most the request it had begun; the signal is never unset.
C3_WorkerStops ==
    [][/\ StopSignal => StopSignal'
       /\ \A w \in Workers :
             /\ pc[w] = "done" => pc'[w] = "done"
             /\ StopSignal /\ pc[w] = "loop" => pc'[w] \in {"loop", "done"}]_vars

\* a worker has seen the signal and exited after appending an outcome
C3_Witness ==
    /\ StopSignal
    /\ gather = "pending"
    /\ appended # <<>>
    /\ \E w \in Workers : pc[w] = "done"
    /\ \E w \in Workers : pc[w] \in {"connect", "read"}

\* C4: once stop is requested every worker reaches Stopped and the gathered
\* run ends, and the run never ends while a worker is still running.
C4_Terminates ==
    /\ StopSignal ~> (AllStopped /\ gather \in {"returned", "raised"})
    /\ [](gather \in {"returned", "raised"} => AllStopped)

\* the run has returned after workers appended outcomes
C4_Witness ==
    /\ gather = "returned"
    /\ args.jobs = 2
    /\ appended # <<>>

\* C5: with a duration and no signal, webtop's workers have all exited no
\* earlier than the duration and no later than the duration plus the timeout.
C5_StopWithinTimeout ==
    (program = "webtop" /\ HasDuration /\ signals = 0) =>
        /\ AllStopped => now >= Duration
        /\ now > Duration + args.timeout => AllStopped

\* C6: after a stop requested before the duration has elapsed, no time passes
\* with the duration timer still asleep.
C6_TimerEndsAtStop ==
    [][(HasDuration /\ stop_test = "sleeping" /\ shutdown_event) => now' = now]_vars

\* C7: a probe that ends in failure is appended to the window, leaves its
\* worker at the loop test and every other worker where it was; a worker
\* leaves its loop only with the stop signal set, and otherwise goes on to
\* its next request.
C7_FailureIsData ==
    [][\A w \in Workers :
          /\ (pc[w] \in {"connect", "read"} /\ pc'[w] \notin {"connect", "read"}) =>
                /\ appended' = Append(appended, Last(appended'))
                /\ ~Last(appended').is_success =>
                      /\ pc'[w] = "loop"
                      /\ Last(results') = Last(appended')
                      /\ \A v \in Workers \ {w} : pc'[v] = pc[v]
          /\ (pc[w] = "loop" /\ pc'[w] = "done") => StopSignal
          /\ (pc[w] = "loop" /\ pc'[w] # "loop" /\ ~StopSignal) => pc'[w] = "call"]_vars

\* the only worker has completed a probe after a failed one
C7_Witness ==
    /\ args.jobs = 1
    /\ Len(appended) >= 3
    /\ appended[1].type = "ErrorResult"
    /\ appended[2].type = "ResponseResult" /\ ~appended[2].is_success

\* C8: an outcome is a success exactly when it carries a response whose
\* status is in 200..399; every error outcome is a failure.
C8_Classification ==
    \A i \in 1..Len(results) :
        results[i].is_success =
            (results[i].type = "ResponseResult" /\ results[i].response[1] \in 200..399)

\* a window with a 399, a 400 and an error
C8_Witness ==
    /\ Len(results) = 3
    /\ results[1].response = Some(399) /\ results[1].is_success
    /\ results[2].response = Some(400) /\ ~results[2].is_success
    /\ results[3].type = "ErrorResult" /\ ~results[3].is_success

\* the entries that carry an elapsed time
Measured(rs) == {i \in 1..Len(rs) : rs[i].type = "ResponseResult"}

RECURSIVE SumElapsedUs(_, _)
SumElapsedUs(rs, I) ==
    IF I = {} THEN 0
    ELSE LET i == CHOOSE j \in I : TRUE
         IN  rs[i].elapsed + SumElapsedUs(rs, I \ {i})

RECURSIVE SumCeilMs(_, _)
SumCeilMs(rs, I) ==
    IF I = {} THEN 0
    ELSE LET i == CHOOSE j \in I : TRUE
         IN  Ceil(rs[i].elapsed, MsUs) + SumCeilMs(rs, I \ {i})

\* C9 as stated: the mean latency is the ceiling, in milliseconds, of the sum
\* of the measured elapsed times (at microsecond precision) over their number.
C9_SubMsMean ==
    output # None =>
        output[1].average_latency =
            IF Measured(results) = {} THEN 0
            ELSE Ceil(SumElapsedUs(results, Measured(results)),
                      MsUs * Cardinality(Measured(results)))

\* C9 amended: the mean latency is the ceiling of (the sum of the elapsed
\* times, each first rounded up to whole milliseconds) over their number, and
\* 0 when no entry carries an elapsed time.
C9_MeanOfCeiledMs ==
    output # None =>
        output[1].average_latency =
            IF Measured(results) = {} THEN 0
            ELSE Ceil(SumCeilMs(results, Measured(results)),
                      Cardinality(Measured(results)))

\* statistics of a window whose rounded and exact means differ
C9_Witness ==
    /\ output # None
    /\ Len(results) = 3
    /\ results[1].type = "ErrorResult"
    /\ results[2].type = "ResponseResult" /\ results[2].elapsed = 500
    /\ results[3].type = "ResponseResult" /\ results[3].elapsed = 1500
    /\ output[1].average_latency = 2

Successes(rs) == Cardinality({i \in 1..Len(rs) : rs[i].is_success})

\* C10: the statistics of a window of n entries have sample_size n and
\* success_rate 100 * successes / n; those of the empty window are all zero
\* with no reason counted.
C10_SampleAndRate ==
    output # None =>
        /\ output[1].sample_size = Len(results)
        /\ output[1].success_rate[2] > 0
        /\ output[1].success_rate[1] * Len(results)
               = 100 * Successes(results) * output[1].success_rate[2]
        /\ results = <<>> =>
              /\ output[1].success_rate[1] = 0
              /\ output[1].average_latency = 0
              /\ output[1].reason_counts = <<>>

\* statistics of a window of three with two successes
C10_Witness ==
    /\ output # None
    /\ Len(results) = 3
    /\ Successes(results) = 2
    /\ output[1].success_rate = <<200, 3>>

\* the entries of a window that carry an elapsed time, in their order
Responses(rs) == SelectSeq(rs, LAMBDA r : r.type = "ResponseResult")

RECURSIVE SumCounts(_, _)
SumCounts(d, i) == IF i > Len(d) THEN 0 ELSE d[i][2] + SumCounts(d, i + 1)

\* C11: the transport errors of a window change neither the numerator nor the
\* denominator of the mean latency (it is the mean latency of the window
\* without them) but count in sample_size and in reason_counts: the values
\* of reason_counts sum to sample_size, and a window of transport errors
\* only has mean latency 0 and its length as sample_size.
C11_ErrorsOutsideMean ==
    output # None =>
        /\ output[1].average_latency
               = build_stats(Responses(results)).average_latency
        /\ output[1].sample_size = Len(results)
        /\ SumCounts(output[1].reason_counts, 1) = output[1].sample_size
        /\ Responses(results) = <<>> => output[1].average_latency = 0

\* statistics of a response of 1.5 ms between two transport errors
C11_Witness ==
    /\ output # None
    /\ Len(results) = 3
    /\ results[1].type = "ErrorResult"
    /\ results[2].type = "ResponseResult" /\ results[2].elapsed = 1500
    /\ results[3].type = "ErrorResult"
    /\ output[1].average_latency = 2
    /\ output[1].sample_size = 3

\* the label of an entry: "HTTP <status>" with a response, else the name of
\* the class of the error
Label(r) ==
    IF r.response # None THEN "HTTP " \o ToString(r.response[1]) ELSE r.error[1]

Labelled(rs, l) == {i \in 1..Len(rs) : Label(rs[i]) = l}
FirstIndex(rs, l) == CHOOSE i \in Labelled(rs, l) : \A j \in Labelled(rs, l) : i <= j

\* C12: reason_counts has one key per label present in the window, its value
\* is the number of entries with that label, and the keys are in the order
\* in which the labels first appear in the window.
C12_ReasonCounts ==
    output # None =>
        LET d == output[1].reason_counts
        IN  /\ \A i, j \in 1..Len(d) : i # j => d[i][1] # d[j][1]
            /\ DictKeys(d) = {Label(results[i]) : i \in 1..Len(results)}
            /\ \A i \in 1..Len(d) :
                   d[i][2] = Cardinality(Labelled(results, d[i][1]))
            /\ \A i, j \in 1..Len(d) :
                   i < j => FirstIndex(results, d[i][1])
                                < FirstIndex(results, d[j][1])

\* statistics of a failed response, a transport error and the same failed
\* response again
C12_Witness ==
    /\ output # None
    /\ Len(results) = 3
    /\ Label(results[1]) = "HTTP 400"
    /\ Label(results[2]) = "ServerTimeoutError"
    /\ Label(results[3]) = "HTTP 400"
    /\ output[1].reason_counts = <<<<"HTTP 400", 2>>, <<"ServerTimeoutError", 1>>>>

\* the host and the address of a --resolve text with one colon
ColonAt(text) == CHOOSE i \in 1..Len(text) : text[i] = ":"
OverrideHost == IF ColonAt(args.resolve[1]) = 1 THEN "" ELSE args.resolve[1][1]
OverrideAddress ==
    IF ColonAt(args.resolve[1]) = Len(args.resolve[1]) THEN ""
    ELSE args.resolve[1][ColonAt(args.resolve[1]) + 1]
OverrideActive ==
    /\ args.resolve # None
    /\ Cardinality({i \in 1..Len(args.resolve[1]) : args.resolve[1][i] = ":"}) = 1
    /\ args.url.host = Some(OverrideHost)

\* C13: a run holds at most one override pair, and none when the host of the
\* target URL is not the host of the override; with the override active, a
\* lookup for its host is answered with the literal address marked numeric
\* and is not handed to the normal resolution, and every other lookup is
\* handed on with its arguments unchanged.
C13_Resolver ==
    /\ Len(custom_resolution) <= 1
    /\ ~OverrideActive => custom_resolution = <<>>
    /\ gather = "pending" /\ OverrideActive =>
           custom_resolution = <<<<OverrideHost, OverrideAddress>>>>
    /\ lookup # None =>
           IF OverrideActive /\ lookup[1].host = OverrideHost
           THEN /\ lookup[1].delegated = None
                /\ Len(lookup[1].answer) = 1
                /\ lookup[1].answer[1].host = OverrideAddress
                /\ lookup[1].answer[1].hostname = lookup[1].host
                /\ lookup[1].answer[1].port = lookup[1].port
                /\ lookup[1].answer[1].flags = "AI_NUMERICHOST"
           ELSE /\ lookup[1].answer = None
                /\ lookup[1].delegated
                       = Some(<<lookup[1].host, lookup[1].port, "AF_INET">>)

\* the overridden host was looked up and answered with the literal address
C13_Witness ==
    /\ args.resolve = Some(<<"example.com", ":", "127.0.0.1">>)
    /\ args.url.host = Some("example.com")
    /\ lookup # None
    /\ lookup[1].host = "example.com"
    /\ lookup[1].delegated = None
    /\ lookup[1].answer[1].host = "127.0.0.1"

\* the window as it was after the first k appends of the run
WindowAfter(k) == LastN(SubSeq(appended, 1, k), Min(k, args.request_history))

\* the statistics of a window, counted entry by entry
StatsOf(rs) ==
    [sample_size |-> Len(rs),
     success_rate |-> IF Len(rs) > 0 THEN <<100 * Successes(rs), Len(rs)>>
                      ELSE <<0, 1>>,
     average_latency |->
         IF Measured(rs) = {} THEN 0
         ELSE Ceil(SumCeilMs(rs, Measured(rs)), Cardinality(Measured(rs))),
     reason_counts |-> build_stats(rs).reason_counts]

\* C14: the statistics last computed, with any number of workers appending
\* and the stop signal set at any moment, are the statistics of the window
\* as it was after some number k of the appends of the run (each of its
\* entries once and whole); and a renderer that is due computes them at once,
\* whatever the workers are doing.
C14_Snapshot ==
    /\ output # None =>
           \E k \in 0..Len(appended) : output[1] = StatsOf(WindowAfter(k))
    /\ (gather = "pending" /\ Coop /\ ~args.quiet /\ rend = "sleep"
           /\ now >= rend_wake) => ENABLED renderer
    /\ (gather = "pending" /\ Coop /\ rend = "wait" /\ shutdown_event)
           => ENABLED renderer_final

\* statistics computed of a full window while a worker had a probe in flight;
\* an outcome has been appended since and a probe is in flight again
C14_Witness ==
    /\ args.jobs = 2
    /\ args.request_history = 1
    /\ output # None
    /\ Len(appended) = 2
    /\ output[1] = StatsOf(WindowAfter(1))
    /\ output[1] # StatsOf(WindowAfter(2))
    /\ \E w \in Workers : pc[w] \in {"connect", "read"}

\* a --resolve text that is not a host, a colon and an address
MalformedResolve(text) ==
    ~(Len(text) = 3 /\ text[1] # ":" /\ text[2] = ":" /\ text[3] # ":")

ConfigInvalid ==
    \/ args.url.host = None
    \/ args.jobs <= 0
    \/ args.request_history < 1
    \/ args.timeout <= 0
    \/ args.resolve # None /\ MalformedResolve(args.resolve[1])
    \/ args.duration = Malformed

NothingLaunched ==
    /\ started = 0
    /\ appended = <<>>
    /\ \A w \in Workers : pc[w] = "loop"

\* C15: a run with an invalid configuration (relative URL, worker count <= 0,
\* history capacity < 1, timeout <= 0, malformed --resolve text, malformed
\* duration) launches no worker and issues no probe.
C15_Refused == ConfigInvalid => NothingLaunched

\* worker w has a probe in flight
Probing(w) == pc[w] \in {"connect", "read"}

\* the probe of worker w ends in this step
Completes(w) == Probing(w) /\ pc'[w] \notin {"connect", "read"}

\* C16: a probe that ends adds exactly one outcome to the history and takes
\* its worker back to the loop test; the history grows by nothing else, and
\* never by more than one outcome per probe; a worker exits only from its
\* loop test, so the probe in flight at the stop is recorded before the exit.
C16_OneOutcomePerProbe ==
    [][/\ \A w \in Workers :
              Completes(w) =>
                  /\ pc'[w] = "loop"
                  /\ Len(appended') = Len(appended) + 1
                  /\ SubSeq(appended', 1, Len(appended)) = appended
       /\ appended' # appended =>
              Cardinality({w \in Workers : Completes(w)}) = 1
       /\ \A w \in Workers :
              /\ pc'[w] = "done" => pc[w] \in {"loop", "done"}
              /\ (pc[w] = "call" /\ pc'[w] # "call") =>
                     (pc'[w] = "connect" /\ appended' = appended)]_vars

\* webtop with duration 0 and no signal: the stop is set at time 0 with the
\* probe of the only worker in flight; it ended later, and its outcome is
\* the one recorded before the worker exited
C16_Witness ==
    /\ program = "webtop"
    /\ args.jobs = 1
    /\ args.duration = Some(0)
    /\ signals = 0
    /\ pc[1] = "done"
    /\ Len(appended) = 1
    /\ appended[1].type = "ResponseResult"
    /\ appended[1].elapsed > 0

\* C17: every change of the window puts one outcome behind the entries it
\* had (less the oldest at capacity), which keep their order and content; the
\* outcome is that of the probe that ended in this step, so a worker's
\* outcomes arrive in the order in which its probes ended, and the window is
\* the tail of the history of arrivals.
C17_ArrivalOrder ==
    [][results' # results =>
           /\ Len(results') >= 1
           /\ SubSeq(results', 1, Len(results') - 1) = results
                  \/ (/\ results # <<>>
                      /\ SubSeq(results', 1, Len(results') - 1) = Tail(results))
           /\ appended' = Append(appended, Last(results'))
           /\ \E w \in Workers :
                  /\ Completes(w)
                  /\ Last(results').type = "ResponseResult" =>
                         Last(results').elapsed = (now - req_start[w]) * TickUs]_vars

\* two workers: an error and then a response arrived after the first outcome
\* had been appended, and the window of two holds them in that order
C17_Witness ==
    /\ args.jobs = 2
    /\ args.request_history = 2
    /\ Len(appended) = 3
    /\ appended[2].type = "ErrorResult"
    /\ appended[3].type = "ResponseResult"
    /\ results = <<appended[2], appended[3]>>

\* C18: no step changes the configuration; a step that computes statistics
\* or requests the stop leaves the window as it is; the window changes only
\* in a step in which a worker's probe ends and its outcome is appended.
C18_Frame ==
    [][/\ args' = args
       /\ program' = program
       /\ gather # "args" => custom_resolution' = custom_resolution
       /\ output' # output => results' = results
       /\ (stop_calls' # stop_calls \/ shutdown_event' # shutdown_event
              \/ runner_stop' # runner_stop) => results' = results
       /\ results' # results =>
              /\ \E w \in Workers : Completes(w)
              /\ appended' # appended]_vars

\* a quiet run after the stop and the final statistics, the window holding
\* the two outcomes the workers appended
C18_Witness ==
    /\ args.quiet
    /\ rend = "done"
    /\ stop_calls >= 1
    /\ output # None
    /\ output[1].sample_size = 2
    /\ Len(results) = 2
    /\ results = appended

\* the tasks created before the workers
TasksBeforeWorkers ==
    IF program = "cli" THEN 2 + (IF args.duration = None THEN 0 ELSE 1)
    ELSE 1 + (IF args.duration = None THEN 0 ELSE 1)

\* the worker loops that have taken their first step
Launched == IF started > TasksBeforeWorkers THEN started - TasksBeforeWorkers ELSE 0

\* C19: a run has one worker loop per configured worker, each with at most
\* one probe at a time, so at most worker_count probes are in flight; no more
\* than worker_count loops are launched, and all of them have been by the
\* time the run returns.
C19_WorkerCount ==
    /\ gather \notin {"args", "refused"} => Len(pc) = args.jobs
    /\ Cardinality({w \in DOMAIN pc : pc[w] \in {"call", "connect", "read"}})
           <= (IF args.jobs > 0 THEN args.jobs ELSE 0)
    /\ Launched <= (IF args.jobs > 0 THEN args.jobs ELSE 0)
    /\ gather = "returned" => Launched = args.jobs

\* both workers of a run of two have a probe in flight
C19_Witness ==
    /\ args.jobs = 2
    /\ Launched = 2
    /\ pc[1] \in {"connect", "read"}
    /\ pc[2] \in {"connect", "read"}

\* C20: the client goes from not built to open once and from open to closed
\* once; a worker starts and holds a probe only on the open client; the
\* client is closed only with every worker exited.
C20_SharedClient ==
    /\ [](/\ \A w \in DOMAIN pc :
                 pc[w] \in {"call", "connect", "read"} => session = "open"
          /\ session = "closed" => \A w \in DOMAIN pc : pc[w] = "done"
          /\ session = "none" => appended = <<>>)
    /\ [][session' # session =>
              \/ session = "none" /\ session' = "open"
              \/ session = "open" /\ session' = "closed"]_vars

\* a run of two workers has returned and closed the client after three
\* probes
C20_Witness ==
    /\ args.jobs = 2
    /\ gather = "returned"
    /\ session = "closed"
    /\ Len(appended) = 3

====
